---- MODULE Spec2Model ----
(***************************************************************************)
(* Verification model of the tfhe-rs radix arithmetic core:                *)
(*   - smart addition on radix ciphertexts                                 *)
(*       tfhe/src/integer/server_key/radix_parallel/add.rs                 *)
(*   - the parallel tournament reduction smart_binary_op_seq_parallelized  *)
(*       (same file)                                                       *)
(*   - the host <-> device bridge CudaRadixCiphertext                      *)
(*       tfhe/src/integer/gpu/ciphertext/mod.rs                            *)
(* Three specifications share the variables: SpecAdd, SpecReduce, SpecGpu. *)
(***************************************************************************)
EXTENDS Integers, Sequences, FiniteSets, TLC

VARIABLES
    \* ---- smart addition (SpecAdd) ----
    cts,        \* the caller's two radix ciphertexts, by name
    ct_res,     \* the ciphertext returned by the last smart_add_parallelized
    call,       \* the last call: operation, operand names, operands on entry
    nops,       \* number of calls made so far
    \* ---- reduction (SpecReduce) ----
    items,      \* the caller's ciphertexts, mutably borrowed by the reduction
    orig,       \* the caller's ciphertexts as they were at the call
    ct_seq,     \* reduce_impl: the working vector of CiphertextCow slots
    results,    \* reduce_impl: the Mutex-guarded results vector of the round
    lock,       \* holder of the results mutex (0: nobody, k: chunk k)
    chunks,     \* state of each par_chunks_mut(2) task of the round
    rpc,        \* position of reduce_impl
    ret,        \* the Option returned by reduce_impl
    rounds,     \* iterations of the while loop executed
    op_calls,   \* applications of op
    clones,     \* ciphertext clones performed by reduce_impl
    trace,      \* history of the reduction: what op was given, and how often
    \* ---- device bridge (SpecGpu) ----
    mem,        \* device memory: address -> buffer
    handles,    \* CudaRadixCiphertext values held by the caller, by name
    stream,     \* operations submitted to the CudaStream, not yet executed
    h_ret,      \* value returned by the last bridge call
    g_call,     \* the last bridge call
    origin,     \* per handle: how it got its content, and the content then
    gops        \* number of bridge calls made so far

addVars == <<cts, ct_res, call, nops>>
redVars == <<items, orig, ct_seq, results, lock, chunks, rpc, ret, rounds, op_calls, clones,
             trace>>
gpuVars == <<mem, handles, stream, h_ret, g_call, origin, gops>>
vars == <<cts, ct_res, call, nops,
          items, orig, ct_seq, results, lock, chunks, rpc, ret, rounds, op_calls, clones,
          trace,
          mem, handles, stream, h_ret, g_call, origin, gops>>

-----------------------------------------------------------------------------
(* Parameters of the key: PARAM_MESSAGE_2_CARRY_2 *)
message_modulus == 4
carry_modulus == 4
max_noise_level == 5

(* Bounds of the model *)
NumBlocks == 3
MaxOps == 5
MaxSeqLen == 5
LweSize == 2
MaxBlocks == 2
NumPatterns == 2
MaxAddr == 3
MaxGpuOps == 5

\* the noise level of a freshly encrypted or bootstrapped block
NominalNoise == 1

max_degree == message_modulus * carry_modulus - 1

RECURSIVE Pow(_, _)
Pow(b, e) == IF e = 0 THEN 1 ELSE b * Pow(b, e - 1)

\* the plaintext space of a radix ciphertext of NumBlocks blocks
RadixModulus == Pow(message_modulus, NumBlocks)

NoCt == <<>>

\* Option<RadixCiphertext>, and the state before reduce_impl has returned
NotReturned == [state |-> "pending", ct |-> NoCt]
None == [state |-> "None", ct |-> NoCt]
Some(c) == [state |-> "Some", ct |-> c]

\* the history of a reduction that has not started: the pairs of slot
\* indices given to op in the current round, the ciphertext behind every
\* slot when the round started, the number of times op was given each
\* item of the caller and each current slot
NoTrace == [pairs |-> {}, start |-> <<>>, item_uses |-> <<>>, slot_uses |-> <<>>]

-----------------------------------------------------------------------------
(* Radix ciphertexts: a sequence of blocks, least significant first.  A    *)
(* block is represented by the plaintext its payload holds (val, message   *)
(* and carry, modulo message_modulus * carry_modulus) and its metadata.    *)

Block(v, d, n) == [val |-> v, degree |-> d, noise_level |-> n]

\* cks.encrypt: digit decomposition in base message_modulus
Encrypt(v) ==
    [i \in 1..NumBlocks |->
        Block((v \div Pow(message_modulus, i - 1)) % message_modulus,
              message_modulus - 1, NominalNoise)]

RECURSIVE RawValue(_, _)
RawValue(ct, i) ==
    IF i > Len(ct) THEN 0
    ELSE ct[i].val * Pow(message_modulus, i - 1) + RawValue(ct, i + 1)

\* cks.decrypt: message-and-carry of every block, recombined modulo the
\* radix modulus
Decrypt(ct) == RawValue(ct, 1) % Pow(message_modulus, Len(ct))

\* a block decrypts reliably only while its noise is within the budget
NoiseOk(ct) == \A i \in 1..Len(ct) : ct[i].noise_level <= max_noise_level

\* every block holds a value its degree bounds, within the carry capacity
DegreeOk(ct) == \A i \in 1..Len(ct) :
    ct[i].val <= ct[i].degree /\ ct[i].degree <= max_degree

\* "clean" state: no carries, baseline degree and noise
Normalized(ct) == \A i \in 1..Len(ct) :
    /\ ct[i].val < message_modulus
    /\ ct[i].degree <= message_modulus - 1
    /\ ct[i].noise_level <= NominalNoise

\* is_add_possible looking at each operand alone instead of the sums
is_add_possible_checks_each_operand(ct_left, ct_right) ==
    \A i \in 1..Len(ct_left) :
        /\ ct_left[i].degree <= max_degree /\ ct_right[i].degree <= max_degree
        /\ ct_left[i].noise_level <= max_noise_level
        /\ ct_right[i].noise_level <= max_noise_level

\* sks.is_add_possible
is_add_possible(ct_left, ct_right) ==
    \A i \in 1..Len(ct_left) :
        /\ ct_left[i].degree + ct_right[i].degree <= max_degree
        /\ ct_left[i].noise_level + ct_right[i].noise_level <= max_noise_level

\* sks.unchecked_add: blockwise addition of payloads, degrees and noise
unchecked_add(ct_left, ct_right) ==
    [i \in 1..Len(ct_left) |->
        Block((ct_left[i].val + ct_right[i].val) % (message_modulus * carry_modulus),
              ct_left[i].degree + ct_right[i].degree,
              ct_left[i].noise_level + ct_right[i].noise_level)]

\* carry entering block i when the carries of blocks 1..i-1 are pushed up
RECURSIVE CarryInto(_, _)
CarryInto(ct, i) ==
    IF i = 1 THEN 0
    ELSE (ct[i - 1].val + CarryInto(ct, i - 1)) \div message_modulus

\* sks.full_propagate_parallelized: push the carries through the blocks,
\* the carry out of the last block is dropped; every block is bootstrapped
full_propagate_parallelized(ct) ==
    [i \in 1..Len(ct) |->
        Block((ct[i].val + CarryInto(ct, i)) % message_modulus,
              message_modulus - 1, NominalNoise)]

\* smart_add_parallelized without the is_add_possible branch
smart_add_never_propagates(ct_left, ct_right) ==
    [ct_left |-> ct_left, ct_right |-> ct_right,
     result |-> unchecked_add(ct_left, ct_right)]

\* smart_add_parallelized propagating the left operand only
smart_add_propagates_left_only(ct_left, ct_right) ==
    LET possible == is_add_possible(ct_left, ct_right)
        l == IF ~possible THEN full_propagate_parallelized(ct_left) ELSE ct_left
    IN  [ct_left |-> l, ct_right |-> ct_right, result |-> unchecked_add(l, ct_right)]

\* smart_add_parallelized propagating both operands on every call
smart_add_always_propagates(ct_left, ct_right) ==
    LET l == full_propagate_parallelized(ct_left)
        r == full_propagate_parallelized(ct_right)
    IN  [ct_left |-> l, ct_right |-> r, result |-> unchecked_add(l, r)]

\* smart_add_parallelized with the test inverted
\* (if self.is_add_possible(..) instead of if !self.is_add_possible(..))
smart_add_inverted_test(ct_left, ct_right) ==
    LET possible == is_add_possible(ct_left, ct_right)
        l == IF possible THEN full_propagate_parallelized(ct_left) ELSE ct_left
        r == IF possible THEN full_propagate_parallelized(ct_right) ELSE ct_right
    IN  [ct_left |-> l, ct_right |-> r, result |-> unchecked_add(l, r)]

\* ServerKey::smart_add_parallelized: the operands after the call and the
\* returned ciphertext
smart_add_parallelized(ct_left, ct_right) ==
    LET possible == is_add_possible(ct_left, ct_right)
        l == IF ~possible THEN full_propagate_parallelized(ct_left) ELSE ct_left
        r == IF ~possible THEN full_propagate_parallelized(ct_right) ELSE ct_right
    IN  [ct_left |-> l, ct_right |-> r, result |-> unchecked_add(l, r)]

\* smart_add_assign_parallelized with the test inverted
\* (if self.is_add_possible(..) instead of if !self.is_add_possible(..))
smart_add_assign_inverted_test(ct_left, ct_right) ==
    LET possible == is_add_possible(ct_left, ct_right)
        l == IF possible THEN full_propagate_parallelized(ct_left) ELSE ct_left
        r == IF possible THEN full_propagate_parallelized(ct_right) ELSE ct_right
    IN  [ct_left |-> unchecked_add(l, r), ct_right |-> r]

\* ServerKey::smart_add_assign_parallelized: the operands after the call
smart_add_assign_parallelized(ct_left, ct_right) ==
    LET possible == is_add_possible(ct_left, ct_right)
        l == IF ~possible THEN full_propagate_parallelized(ct_left) ELSE ct_left
        r == IF ~possible THEN full_propagate_parallelized(ct_right) ELSE ct_right
    IN  [ct_left |-> unchecked_add(l, r), ct_right |-> r]

-----------------------------------------------------------------------------
(* SpecAdd: a caller holding two radix ciphertexts ct1 and ct2 and making  *)
(* smart additions on them.                                                *)

\* the messages of the doc test (msg1 = 14, msg2 = 97) and the largest one
PlainVals == {14, 97, RadixModulus - 1}

Names == {"ct1", "ct2"}

NoCall == [op |-> "none", left |-> "ct1", right |-> "ct2",
           pre_left |-> NoCt, pre_right |-> NoCt]

\* the variables of the other two specifications, at rest
RedIdle ==
    /\ items = <<>> /\ orig = <<>> /\ ct_seq = <<>> /\ results = <<>>
    /\ lock = 0 /\ chunks = <<>> /\ rpc = "idle" /\ ret = NotReturned
    /\ rounds = 0 /\ op_calls = 0 /\ clones = 0
    /\ trace = NoTrace

\* no value returned by a bridge call
NoRet == [kind |-> "none", ct |-> NoCt, eq |-> FALSE]

\* no bridge call made yet; a handle that holds nothing
NoGCall == [op |-> "none", h |-> "d1", other |-> "d1", prev |-> "none", pre |-> NoCt]
NoOrigin == [by |-> "none", ct |-> NoCt, of |-> "d1"]

GpuIdle ==
    /\ mem = <<>> /\ handles = <<>> /\ stream = <<>>
    /\ h_ret = NoRet /\ g_call = NoGCall /\ origin = <<>> /\ gops = 0

AddIdle ==
    /\ cts = <<>> /\ ct_res = NoCt /\ call = NoCall /\ nops = 0

AddInit ==
    /\ \E v1 \in PlainVals, v2 \in PlainVals :
          cts = [n \in Names |-> IF n = "ct1" THEN Encrypt(v1) ELSE Encrypt(v2)]
    /\ ct_res = NoCt
    /\ call = NoCall
    /\ nops = 0
    /\ RedIdle
    /\ GpuIdle

\* let ct_res = sks.smart_add_parallelized(&mut x, &mut y)
SmartAdd(x, y) ==
    /\ x # y
    /\ nops < MaxOps
    /\ LET r == smart_add_parallelized(cts[x], cts[y])
       IN  /\ cts' = [cts EXCEPT ![x] = r.ct_left, ![y] = r.ct_right]
           /\ ct_res' = r.result
    /\ call' = [op |-> "smart_add", left |-> x, right |-> y,
                pre_left |-> cts[x], pre_right |-> cts[y]]
    /\ nops' = nops + 1
    /\ UNCHANGED <<redVars, gpuVars>>

\* sks.smart_add_assign_parallelized(&mut x, &mut y)
SmartAddAssign(x, y) ==
    /\ x # y
    /\ nops < MaxOps
    /\ LET r == smart_add_assign_parallelized(cts[x], cts[y])
       IN  cts' = [cts EXCEPT ![x] = r.ct_left, ![y] = r.ct_right]
    /\ call' = [op |-> "smart_add_assign", left |-> x, right |-> y,
                pre_left |-> cts[x], pre_right |-> cts[y]]
    /\ nops' = nops + 1
    /\ UNCHANGED <<ct_res, redVars, gpuVars>>

\* the caller keeps a returned sum as one of its operands: x = ct_res
Rebind(x) ==
    /\ ct_res # NoCt
    /\ nops < MaxOps
    /\ cts' = [cts EXCEPT ![x] = ct_res]
    /\ call' = [NoCall EXCEPT !.op = "rebind", !.left = x]
    /\ nops' = nops + 1
    /\ UNCHANGED <<ct_res, redVars, gpuVars>>

AddNext ==
    \/ \E x \in Names, y \in Names : SmartAdd(x, y)
    \/ \E x \in Names, y \in Names : SmartAddAssign(x, y)
    \/ \E x \in Names : Rebind(x)

SpecAdd == AddInit /\ [][AddNext]_vars

\* is_add_possible as it evaluated on entry of the last call
PossibleOnEntry == is_add_possible(call.pre_left, call.pre_right)

\* C2: the ciphertext returned by smart_add_parallelized(a, b) decrypts,
\* within the noise budget, to (decrypt(a) + decrypt(b)) modulo
\* message_modulus^num_blocks for the values a and b had before the call,
\* and the call leaves the decrypted values of a and b unchanged.
C2_SmartAddSum ==
    call.op = "smart_add" =>
        /\ NoiseOk(ct_res) /\ DegreeOk(ct_res)
        /\ Decrypt(ct_res) =
              (Decrypt(call.pre_left) + Decrypt(call.pre_right)) % RadixModulus
        /\ Decrypt(cts[call.left]) = Decrypt(call.pre_left)
        /\ Decrypt(cts[call.right]) = Decrypt(call.pre_right)

\* a smart_add that had to propagate operands holding carries, and whose
\* sum wraps around the radix modulus
C2_Witness ==
    /\ call.op = "smart_add"
    /\ ~PossibleOnEntry
    /\ ~Normalized(call.pre_left) /\ ~Normalized(call.pre_right)
    /\ Decrypt(call.pre_left) + Decrypt(call.pre_right) >= RadixModulus
    /\ Decrypt(ct_res) =
          (Decrypt(call.pre_left) + Decrypt(call.pre_right)) % RadixModulus

\* C3 as stated: after every smart_add_parallelized(a, b) both operands,
\* and after every smart_add_assign_parallelized(a, b) the operand b, are
\* normalized, whether or not is_add_possible(a, b) held.
C3_AlwaysNormalized ==
    /\ call.op = "smart_add" =>
          Normalized(cts[call.left]) /\ Normalized(cts[call.right])
    /\ call.op = "smart_add_assign" => Normalized(cts[call.right])

\* C3 amended: the operands are left normalized when is_add_possible(a, b)
\* was false on entry; when it held they are left exactly as they were.
C3_NormalizedWhenImpossible ==
    /\ (call.op = "smart_add" /\ ~PossibleOnEntry) =>
          Normalized(cts[call.left]) /\ Normalized(cts[call.right])
    /\ (call.op = "smart_add_assign" /\ ~PossibleOnEntry) =>
          Normalized(cts[call.right])
    /\ (call.op = "smart_add" /\ PossibleOnEntry) =>
          cts[call.left] = call.pre_left /\ cts[call.right] = call.pre_right
    /\ (call.op = "smart_add_assign" /\ PossibleOnEntry) =>
          cts[call.right] = call.pre_right

\* a smart_add on operands that were not normalized and could not be added
C3_Witness ==
    /\ call.op = "smart_add"
    /\ ~PossibleOnEntry
    /\ ~Normalized(call.pre_left) /\ ~Normalized(call.pre_right)
    /\ Normalized(cts[call.left]) /\ Normalized(cts[call.right])

-----------------------------------------------------------------------------
(* SpecReduce: one call of smart_binary_op_seq_parallelized(ct_seq, op)    *)
(* with op = ServerKey::smart_add_parallelized.  Every chunk of            *)
(* par_chunks_mut(2) is a task of the thread pool; tasks interleave freely.*)

\* CiphertextCow
Borrowed(i) == [kind |-> "Borrowed", ref |-> i, ct |-> NoCt]
Owned(c) == [kind |-> "Owned", ref |-> 0, ct |-> c]

\* CiphertextCow::as_mut: the ciphertext a slot gives access to
as_mut(slot) == IF slot.kind = "Borrowed" THEN items[slot.ref] ELSE slot.ct

\* a ciphertext that went through two unchecked additions since it was clean
Tripled(v) == unchecked_add(Encrypt(v), unchecked_add(Encrypt(v), Encrypt(v)))

\* the ciphertexts the caller may pass
InputCts == {Encrypt(1), Encrypt(RadixModulus - 1), Tripled(5)}

\* Scenario B: the encryptions of [3, 1, 4, 1, 5]
ScenarioB == <<Encrypt(3), Encrypt(1), Encrypt(4), Encrypt(1), Encrypt(5)>>

InputSeqs == UNION {[1..n -> InputCts] : n \in 0..MaxSeqLen} \cup {ScenarioB}

\* the parity fix-up left out
untouched_prefix_always_zero(len) == 0

\* ct_seq.len() % 2
untouched_prefix(len) == len % 2

\* a task of the round: its position, the result of op once computed, and
\* the length of the results vector it found when it got the guard
NewChunk == [pc |-> "op", result |-> NoCt, len |-> 0]

\* the next round's slots without the carried prefix: truncate(0)
NextSlots_drops_prefix(seq, prefix, res) == [i \in 1..Len(res) |-> Owned(res[i])]

\* the first slot always kept: truncate(1)
NextSlots_truncates_one(seq, prefix, res) ==
    SubSeq(seq, 1, 1) \o [i \in 1..Len(res) |-> Owned(res[i])]

\* the results placed ahead of the carried prefix
NextSlots_prefix_last(seq, prefix, res) ==
    [i \in 1..Len(res) |-> Owned(res[i])] \o SubSeq(seq, 1, prefix)

\* ct_seq.truncate(untouched_prefix); ct_seq.extend(results.map(Owned))
NextSlots(seq, prefix, res) ==
    SubSeq(seq, 1, prefix) \o [i \in 1..Len(res) |-> Owned(res[i])]

\* the inputs of the runs checked for termination and operation counts
CountSeqs == UNION {[1..n -> {Encrypt(1), Tripled(5)}] : n \in 0..MaxSeqLen}

RedInitWith(seqs) ==
    /\ items \in seqs
    /\ orig = items
    /\ ct_seq = <<>>
    /\ results = <<>>
    /\ lock = 0
    /\ chunks = <<>>
    /\ rpc = "call"
    /\ ret = NotReturned
    /\ rounds = 0 /\ op_calls = 0 /\ clones = 0
    /\ trace = NoTrace
    /\ AddIdle
    /\ GpuIdle

RedInit == RedInitWith(InputSeqs)

RedInitCount == RedInitWith(CountSeqs)

\* every item cloned into an Owned slot
Collect_clones_items ==
    /\ rpc = "call"
    /\ ct_seq' = [i \in 1..Len(items) |-> Owned(items[i])]
    /\ rpc' = "entry"
    /\ trace' = [NoTrace EXCEPT !.item_uses = [i \in 1..Len(items) |-> 0],
                               !.slot_uses = [i \in 1..Len(items) |-> 0]]
    /\ UNCHANGED <<items, orig, results, lock, chunks, ret, rounds, op_calls, clones,
                   addVars, gpuVars>>

\* lines 89-93, 147: every item is wrapped in a Borrowed slot
Collect ==
    /\ rpc = "call"
    /\ ct_seq' = [i \in 1..Len(items) |-> Borrowed(i)]
    /\ rpc' = "entry"
    /\ trace' = [NoTrace EXCEPT !.item_uses = [i \in 1..Len(items) |-> 0],
                               !.slot_uses = [i \in 1..Len(items) |-> 0]]
    /\ UNCHANGED <<items, orig, results, lock, chunks, ret, rounds, op_calls, clones,
                   addVars, gpuVars>>

\* reduce_impl without the is_empty test
CheckEmpty_missing ==
    /\ rpc = "entry"
    /\ rpc' = "loop"
    /\ UNCHANGED <<items, orig, ct_seq, results, lock, chunks, ret, rounds, op_calls, clones,
                   trace, addVars, gpuVars>>

\* lines 111-113: if ct_seq.is_empty() { None }
CheckEmpty ==
    /\ rpc = "entry"
    /\ IF ct_seq = <<>>
       THEN ret' = None /\ rpc' = "done"
       ELSE ret' = ret /\ rpc' = "loop"
    /\ UNCHANGED <<items, orig, ct_seq, results, lock, chunks, rounds, op_calls, clones,
                   trace, addVars, gpuVars>>

\* lines 116-125: while ct_seq.len() > 1: a new results vector, and one
\* task per chunk of two slots after the untouched prefix
LoopTest ==
    /\ rpc = "loop"
    /\ IF Len(ct_seq) > 1
       THEN /\ results' = <<>>
            /\ chunks' = [k \in 1..((Len(ct_seq) - untouched_prefix(Len(ct_seq)) + 1) \div 2)
                            |-> NewChunk]
            /\ rounds' = rounds + 1
            /\ rpc' = "round"
            /\ trace' = [trace EXCEPT !.pairs = {},
                                      !.start = [i \in 1..Len(ct_seq) |-> as_mut(ct_seq[i])]]
       ELSE /\ rpc' = "pop"
            /\ UNCHANGED <<results, chunks, rounds, trace>>
    /\ UNCHANGED <<items, orig, ct_seq, lock, ret, op_calls, clones, addVars, gpuVars>>

\* overlapping chunks, as windows(2) would give: chunk k starts one slot
\* after chunk k - 1
ChunkFirst_windows(k) == untouched_prefix(Len(ct_seq)) + k

\* the slots of chunk k of ct_seq[untouched_prefix..].par_chunks_mut(2)
ChunkFirst(k) == untouched_prefix(Len(ct_seq)) + 2 * k - 1
ChunkSecond(k) == untouched_prefix(Len(ct_seq)) + 2 * k

\* a slot after op has written c through as_mut
SlotWritten(slot, c) == IF slot.kind = "Owned" THEN Owned(c) ELSE slot

\* lines 126-129: result = op(sks, first.as_mut(), second.as_mut());
\* second[0] panics on a chunk of one slot
ChunkOp(k) ==
    /\ rpc = "round"
    /\ k \in 1..Len(chunks)
    /\ chunks[k].pc = "op"
    /\ IF ChunkSecond(k) > Len(ct_seq)
       THEN /\ rpc' = "panic"
            /\ UNCHANGED <<items, ct_seq, chunks, op_calls, trace>>
       ELSE LET first == ct_seq[ChunkFirst(k)]
                second == ct_seq[ChunkSecond(k)]
                r == smart_add_parallelized(as_mut(first), as_mut(second))
                written == [i \in {ChunkFirst(k), ChunkSecond(k)} |->
                               IF i = ChunkFirst(k) THEN r.ct_left ELSE r.ct_right]
            IN  /\ items' = [i \in 1..Len(items) |->
                               IF first.kind = "Borrowed" /\ first.ref = i THEN r.ct_left
                               ELSE IF second.kind = "Borrowed" /\ second.ref = i
                                    THEN r.ct_right
                                    ELSE items[i]]
                /\ ct_seq' = [i \in 1..Len(ct_seq) |->
                               IF i \in DOMAIN written
                               THEN SlotWritten(ct_seq[i], written[i])
                               ELSE ct_seq[i]]
                /\ chunks' = [chunks EXCEPT ![k] = [pc |-> "lock", result |-> r.result,
                                                     len |-> 0]]
                /\ op_calls' = op_calls + 1
                /\ trace' = [trace EXCEPT
                      !.pairs = @ \cup {<<ChunkFirst(k), ChunkSecond(k)>>},
                      !.slot_uses = [i \in 1..Len(@) |->
                          @[i] + (IF i = ChunkFirst(k) THEN 1 ELSE 0)
                               + (IF i = ChunkSecond(k) THEN 1 ELSE 0)],
                      !.item_uses = [i \in 1..Len(@) |->
                          @[i] + (IF first.kind = "Borrowed" /\ first.ref = i THEN 1 ELSE 0)
                               + (IF second.kind = "Borrowed" /\ second.ref = i
                                  THEN 1 ELSE 0)]]
                /\ rpc' = rpc
    /\ UNCHANGED <<orig, results, lock, ret, rounds, clones, addVars, gpuVars>>

\* the tasks appending to the results vector without a mutex
ChunkLock_no_mutex(k) ==
    /\ rpc = "round"
    /\ k \in 1..Len(chunks)
    /\ chunks[k].pc = "lock"
    /\ lock' = k
    /\ chunks' = [chunks EXCEPT ![k].pc = "push", ![k].len = Len(results)]
    /\ UNCHANGED <<items, orig, ct_seq, results, rpc, ret, rounds, op_calls, clones,
                   trace, addVars, gpuVars>>

\* line 130: results.lock().unwrap(): the task waits for the mutex; push
\* starts by reading the length of the vector, which nobody else can
\* change while the guard is held
ChunkLock(k) ==
    /\ rpc = "round"
    /\ k \in 1..Len(chunks)
    /\ chunks[k].pc = "lock"
    /\ lock = 0
    /\ lock' = k
    /\ chunks' = [chunks EXCEPT ![k].pc = "push", ![k].len = Len(results)]
    /\ UNCHANGED <<items, orig, ct_seq, results, rpc, ret, rounds, op_calls, clones,
                   trace, addVars, gpuVars>>

\* line 130: .push(result) writes the result after the elements it found
\* and sets the new length; the guard is dropped at the end of the
\* statement
ChunkPush(k) ==
    /\ rpc = "round"
    /\ k \in 1..Len(chunks)
    /\ chunks[k].pc = "push"
    /\ results' = Append(SubSeq(results, 1, chunks[k].len), chunks[k].result)
    /\ lock' = 0
    /\ chunks' = [chunks EXCEPT ![k].pc = "done", ![k].len = 0]
    /\ UNCHANGED <<items, orig, ct_seq, rpc, ret, rounds, op_calls, clones,
                   trace, addVars, gpuVars>>

\* lines 131-135: for_each has joined every task; the slots of the next round
EndRound ==
    /\ rpc = "round"
    /\ \A k \in 1..Len(chunks) : chunks[k].pc = "done"
    /\ ct_seq' = NextSlots(ct_seq, untouched_prefix(Len(ct_seq)), results)
    /\ results' = <<>>
    /\ chunks' = <<>>
    /\ rpc' = "loop"
    /\ trace' = [trace EXCEPT !.slot_uses =
                    [i \in 1..Len(ct_seq') |->
                        IF i <= untouched_prefix(Len(ct_seq)) THEN @[i] ELSE 0]]
    /\ UNCHANGED <<items, orig, lock, ret, rounds, op_calls, clones, addVars, gpuVars>>

\* the final match moving the value out of a Borrowed slot (mem::take)
\* instead of cloning it
Finish_takes_borrowed ==
    /\ rpc = "pop"
    /\ ct_seq # <<>>
    /\ LET sum == ct_seq[Len(ct_seq)]
       IN  /\ ct_seq' = SubSeq(ct_seq, 1, Len(ct_seq) - 1)
           /\ IF sum.kind = "Borrowed"
              THEN /\ ret' = Some(items[sum.ref])
                   /\ items' = [items EXCEPT ![sum.ref] = NoCt]
              ELSE /\ ret' = Some(sum.ct)
                   /\ items' = items
    /\ rpc' = "done"
    /\ UNCHANGED <<orig, results, lock, chunks, rounds, op_calls, clones, trace,
                   addVars, gpuVars>>

\* the final match cloning the sum in both arms
Finish_clones_owned ==
    /\ rpc = "pop"
    /\ ct_seq # <<>>
    /\ LET sum == ct_seq[Len(ct_seq)]
       IN  /\ ct_seq' = SubSeq(ct_seq, 1, Len(ct_seq) - 1)
           /\ ret' = Some(as_mut(sum))
           /\ clones' = clones + 1
    /\ rpc' = "done"
    /\ UNCHANGED <<items, orig, results, lock, chunks, rounds, op_calls, trace,
                   addVars, gpuVars>>

\* lines 138-143: let sum = ct_seq.pop().unwrap(); a Borrowed sum is cloned
Finish ==
    /\ rpc = "pop"
    /\ IF ct_seq = <<>>
       THEN /\ rpc' = "panic"
            /\ UNCHANGED <<ct_seq, ret, clones>>
       ELSE LET sum == ct_seq[Len(ct_seq)]
            IN  /\ ct_seq' = SubSeq(ct_seq, 1, Len(ct_seq) - 1)
                /\ IF sum.kind = "Borrowed"
                   THEN ret' = Some(items[sum.ref]) /\ clones' = clones + 1
                   ELSE ret' = Some(sum.ct) /\ clones' = clones
                /\ rpc' = "done"
    /\ UNCHANGED <<items, orig, results, lock, chunks, rounds, op_calls, trace,
                   addVars, gpuVars>>

RedNext ==
    \/ Collect
    \/ CheckEmpty
    \/ LoopTest
    \/ \E k \in 1..MaxSeqLen : ChunkOp(k)
    \/ \E k \in 1..MaxSeqLen : ChunkLock(k)
    \/ \E k \in 1..MaxSeqLen : ChunkPush(k)
    \/ EndRound
    \/ Finish

SpecReduce == RedInit /\ [][RedNext]_vars

\* the pool runs every task to completion and every guard is released
SpecReduceFair == RedInitCount /\ [][RedNext]_vars /\ WF_vars(RedNext)

\* the left-to-right plaintext fold of the decrypted inputs, up to item i
RECURSIVE PlainFold(_, _)
PlainFold(seq, i) ==
    IF i = 1 THEN Decrypt(seq[1])
    ELSE (PlainFold(seq, i - 1) + Decrypt(seq[i])) % RadixModulus

RECURSIVE CeilLog2(_)
CeilLog2(n) == IF n <= 1 THEN 0 ELSE 1 + CeilLog2((n + 1) \div 2)

\* C1: for a non-empty input, whatever the interleaving of the tasks and
\* the order of the appends, reduce_impl returns Some(r) and r decrypts,
\* within the noise budget, to the left-to-right plaintext fold of the
\* decrypted inputs.
C1_ReductionCorrect ==
    /\ rpc # "panic"
    /\ (rpc = "done" /\ Len(orig) >= 1) =>
          /\ ret.state = "Some"
          /\ NoiseOk(ret.ct)
          /\ Decrypt(ret.ct) = PlainFold(orig, Len(orig))

\* Scenario B has been reduced: [3, 1, 4, 1, 5] gives 14
C1_Witness ==
    /\ rpc = "done"
    /\ orig = ScenarioB
    /\ ret.state = "Some"
    /\ Decrypt(ret.ct) = 14

\* C7: the reduction of n >= 1 ciphertexts terminates, after exactly
\* ceil(log2(n)) iterations of the while loop and n - 1 applications of op.
C7_TerminatesInLogRounds ==
    /\ <>(rpc = "done")
    /\ []((rpc = "done" /\ Len(orig) >= 1) =>
             (rounds = CeilLog2(Len(orig)) /\ op_calls = Len(orig) - 1))

\* a reduction of five ciphertexts has returned after 3 rounds and 4 ops
C7_Witness ==
    /\ rpc = "done"
    /\ Len(orig) = 5
    /\ rounds = 3
    /\ op_calls = 4

\* C8: for an empty input the reduction returns None, op is never applied
\* and nothing panics.
C8_EmptyGivesNone ==
    Len(orig) = 0 =>
        /\ rpc # "panic"
        /\ op_calls = 0
        /\ rpc = "done" => ret = None

\* the reduction of the empty sequence has returned
C8_Witness ==
    /\ rpc = "done"
    /\ orig = <<>>
    /\ ret = None

\* C9: for an input of exactly one ciphertext c the reduction returns
\* Some(r) with r = c, op is never applied and c is not mutated.
C9_SingleReturned ==
    Len(orig) = 1 =>
        /\ rpc # "panic"
        /\ op_calls = 0
        /\ rounds = 0
        /\ items = orig
        /\ rpc = "done" => ret = Some(orig[1])

\* the reduction of a single ciphertext that is not in clean state has
\* returned
C9_Witness ==
    /\ rpc = "done"
    /\ Len(orig) = 1
    /\ ~Normalized(orig[1])
    /\ ret = Some(orig[1])

-----------------------------------------------------------------------------
(* SpecGpu: a caller holding up to two CudaRadixCiphertext values, d1 and  *)
(* d2, on one CudaStream.  The device memory is a map from addresses to    *)
(* buffers; the stream is the queue of submitted operations the device has *)
(* not executed yet, executed in submission order.                         *)

HandleNames == {"d1", "d2"}
Addrs == 1..MaxAddr
NoHandle == [bound |-> FALSE]

\* shortint::Ciphertext as the bridge sees it: the LWE payload (lwe_size
\* words and a ciphertext modulus) and the metadata
HostBlock(i, v) ==
    [ct |-> [data |-> [j \in 1..LweSize |-> (v + 2 * i + j) % 5],
             ciphertext_modulus |-> "native"],
     degree |-> IF (i + v) % 2 = 0 THEN message_modulus - 1
                ELSE 2 * (message_modulus - 1),
     noise_level |-> IF (i + v) % 2 = 0 THEN NominalNoise ELSE 2 * NominalNoise,
     message_modulus |-> message_modulus,
     carry_modulus |-> carry_modulus,
     pbs_order |-> "KeyswitchBootstrap"]

\* the host radix ciphertexts the caller may transfer: 1..MaxBlocks blocks
HostCts == {[i \in 1..n |-> HostBlock(i, v)] : n \in 1..MaxBlocks, v \in 0..(NumPatterns - 1)}

RECURSIVE Flatten(_, _)
\* lines 49-53: blocks.iter().flat_map(|block| block.ct.clone().into_container())
Flatten(radix, i) ==
    IF i > Len(radix) THEN <<>> ELSE radix[i].ct.data \o Flatten(radix, i + 1)

\* lines 65-77: the CudaBlockInfo of every block, in block order
InfoOf(radix) ==
    [i \in 1..Len(radix) |->
        [degree |-> radix[i].degree,
         message_modulus |-> radix[i].message_modulus,
         carry_modulus |-> radix[i].carry_modulus,
         pbs_order |-> radix[i].pbs_order,
         noise_level |-> radix[i].noise_level]]

\* CudaVec::new_async: the lowest free address
Alloc(m) == CHOOSE a \in Addrs : ~m[a].live /\ \A b \in Addrs : ~m[b].live => a <= b
CanAlloc(m) == \E a \in Addrs : ~m[a].live

Zeros(n) == [i \in 1..n |-> 0]

\* a copy of src over the first words of dst
Overwrite(dst, src) ==
    [i \in 1..Len(dst) |-> IF i <= Len(src) THEN src[i] ELSE dst[i]]

\* what a copy may read from a buffer: its content, or, when the buffer
\* has been freed, the stale content or anything else
Readable(buf) ==
    IF buf.live THEN {buf.data}
    ELSE {buf.data} \cup {[i \in 1..Len(buf.data) |-> w] : w \in 0..1}

\* the memories the device may be in after executing one stream operation
ExecOutcomes(m, o) ==
    IF o.op = "copy_gpu"
    THEN {[m EXCEPT ![o.dst].data = Overwrite(@, d)] : d \in Readable(m[o.src])}
    ELSE {[m EXCEPT ![o.dst].data = Overwrite(@, o.data)]}

RECURSIVE DrainOutcomes(_, _)
\* stream.synchronize(): every submitted operation has been executed, in
\* submission order
DrainOutcomes(m, q) ==
    IF q = <<>> THEN {m}
    ELSE UNION {DrainOutcomes(m2, Tail(q)) : m2 \in ExecOutcomes(m, Head(q))}

\* d_ct.copy_from_gpu_async(&src.d_vec, stream), submitted by `by`
copy_from_gpu_async(dst, src, by) ==
    [op |-> "copy_gpu", dst |-> dst, src |-> src, data |-> <<>>, by |-> by]

\* d_vec.copy_from_cpu_async(h_radix_ciphertext, stream)
copy_from_cpu_async(dst, data, by) ==
    [op |-> "copy_cpu", dst |-> dst, src |-> dst, data |-> data, by |-> by]

\* lines 48-80: the CudaRadixCiphertext built over the buffer at address a
from_radix_ciphertext(radix, a) ==
    [bound |-> TRUE,
     d_blocks |-> [d_vec |-> a,
                   lwe_ciphertext_count |-> Len(Flatten(radix, 1)) \div Len(radix[1].ct.data),
                   lwe_size |-> Len(radix[1].ct.data),
                   ciphertext_modulus |-> radix[1].ct.ciphertext_modulus],
     info |-> InfoOf(radix)]

Min(a, b) == IF a <= b THEN a ELSE b

\* to_radix_ciphertext cutting the buffer by the LWE dimension
\* (lwe_size - 1) instead of the LWE size
to_radix_ciphertext_chunks_by_dimension(m, h) ==
    LET container == m[h.d_blocks.d_vec].data
        stride == h.d_blocks.lwe_size - 1
        nchunks == (Len(container) + stride - 1) \div stride
    IN  [i \in 1..Min(nchunks, Len(h.info)) |->
            [ct |-> [data |-> SubSeq(container, (i - 1) * stride + 1,
                                     Min(i * stride, Len(container))),
                     ciphertext_modulus |-> h.d_blocks.ciphertext_modulus],
             degree |-> h.info[i].degree,
             noise_level |-> h.info[i].noise_level,
             message_modulus |-> h.info[i].message_modulus,
             carry_modulus |-> h.info[i].carry_modulus,
             pbs_order |-> h.info[i].pbs_order]]

\* lines 136-156: the buffer is copied to the host, cut in chunks of
\* lwe_size words and zipped with the metadata
to_radix_ciphertext(m, h) ==
    LET container == m[h.d_blocks.d_vec].data
        lwe_size == h.d_blocks.lwe_size
        nchunks == (Len(container) + lwe_size - 1) \div lwe_size
    IN  [i \in 1..Min(nchunks, Len(h.info)) |->
            [ct |-> [data |-> SubSeq(container, (i - 1) * lwe_size + 1,
                                     Min(i * lwe_size, Len(container))),
                     ciphertext_modulus |-> h.d_blocks.ciphertext_modulus],
             degree |-> h.info[i].degree,
             noise_level |-> h.info[i].noise_level,
             message_modulus |-> h.info[i].message_modulus,
             carry_modulus |-> h.info[i].carry_modulus,
             pbs_order |-> h.info[i].pbs_order]]

\* is_equal comparing the metadata with the buffers
is_equal_compares_info(m, h1, h2) ==
    /\ m[h1.d_blocks.d_vec].data = m[h2.d_blocks.d_vec].data
    /\ h1.info = h2.info

\* lines 210-230: the two buffers, copied to the host, are the same vector
is_equal(m, h1, h2) == m[h1.d_blocks.d_vec].data = m[h2.d_blocks.d_vec].data

\* what the caller sees of a handle: its buffer and its metadata
View(m, h) == [live |-> m[h.d_blocks.d_vec].live,
               data |-> m[h.d_blocks.d_vec].data,
               info |-> h.info]

GpuInit ==
    /\ mem = [a \in Addrs |-> [live |-> FALSE, data |-> <<>>]]
    /\ handles = [n \in HandleNames |-> NoHandle]
    /\ stream = <<>>
    /\ h_ret = NoRet
    /\ g_call = NoGCall
    /\ origin = [n \in HandleNames |-> NoOrigin]
    /\ gops = 0
    /\ AddIdle
    /\ RedIdle

\* the record of a call; prev tells whether the call before was duplicate
GCall(op, h, other, pre) ==
    [op |-> op, h |-> h, other |-> other,
     prev |-> IF g_call.op = "duplicate" THEN "duplicate" ELSE "other",
     pre |-> pre]

\* let h = CudaRadixCiphertext::from_radix_ciphertext(&radix, &stream):
\* allocation, host to device copy, stream.synchronize()
FromRadix(h, radix) ==
    /\ gops < MaxGpuOps
    /\ ~handles[h].bound
    /\ CanAlloc(mem)
    /\ LET a == Alloc(mem)
           m1 == [mem EXCEPT ![a] = [live |-> TRUE, data |-> Zeros(Len(Flatten(radix, 1)))]]
           q == Append(stream, copy_from_cpu_async(a, Flatten(radix, 1), "from_radix"))
       IN  /\ mem' \in DrainOutcomes(m1, q)
           /\ handles' = [handles EXCEPT ![h] = from_radix_ciphertext(radix, a)]
    /\ stream' = <<>>
    /\ h_ret' = NoRet
    /\ g_call' = GCall("from_radix", h, h, NoCt)
    /\ origin' = [origin EXCEPT ![h] = [by |-> "from_radix", ct |-> radix, of |-> h]]
    /\ gops' = gops + 1
    /\ UNCHANGED <<addVars, redVars>>

\* copy_from_radix_ciphertext building a new device ciphertext and
\* releasing the old buffer (*self = from_radix_ciphertext(radix, stream))
CopyFromRadix_reallocates(h, radix) ==
    /\ gops < MaxGpuOps
    /\ handles[h].bound
    /\ CanAlloc(mem)
    /\ LET a == Alloc(mem)
           m1 == [mem EXCEPT ![a] = [live |-> TRUE, data |-> Zeros(Len(Flatten(radix, 1)))],
                             ![handles[h].d_blocks.d_vec].live = FALSE]
           q == Append(stream, copy_from_cpu_async(a, Flatten(radix, 1), "copy_from"))
       IN  /\ mem' \in DrainOutcomes(m1, q)
           /\ handles' = [handles EXCEPT ![h] = from_radix_ciphertext(radix, a)]
    /\ stream' = <<>>
    /\ h_ret' = NoRet
    /\ g_call' = GCall("copy_from", h, h, NoCt)
    /\ origin' = [origin EXCEPT ![h] = [by |-> "copy_from", ct |-> radix, of |-> h]]
    /\ gops' = gops + 1
    /\ UNCHANGED <<addVars, redVars>>

\* h.copy_from_radix_ciphertext(&radix, &stream), lines 82-110;
\* copy_from_cpu_async asserts that the buffer is large enough
CopyFromRadix(h, radix) ==
    /\ gops < MaxGpuOps
    /\ handles[h].bound
    /\ Len(Flatten(radix, 1)) <= Len(mem[handles[h].d_blocks.d_vec].data)
    /\ LET a == handles[h].d_blocks.d_vec
           q == Append(stream, copy_from_cpu_async(a, Flatten(radix, 1), "copy_from"))
       IN  mem' \in DrainOutcomes(mem, q)
    /\ handles' = [handles EXCEPT ![h].info = InfoOf(radix)]
    /\ stream' = <<>>
    /\ h_ret' = NoRet
    /\ g_call' = GCall("copy_from", h, h, NoCt)
    /\ origin' = [origin EXCEPT ![h] = [by |-> "copy_from", ct |-> radix, of |-> h]]
    /\ gops' = gops + 1
    /\ UNCHANGED <<addVars, redVars>>

\* h.to_radix_ciphertext(&stream): to_lwe_ciphertext_list synchronizes
ToRadix(h) ==
    /\ gops < MaxGpuOps
    /\ handles[h].bound
    /\ mem' \in DrainOutcomes(mem, stream)
    /\ stream' = <<>>
    /\ h_ret' = [kind |-> "ct", ct |-> to_radix_ciphertext(mem', handles[h]), eq |-> FALSE]
    /\ g_call' = GCall("to_radix", h, h, NoCt)
    /\ gops' = gops + 1
    /\ UNCHANGED <<handles, origin, addVars, redVars>>

\* the copy of duplicate_async submitted in the wrong direction
duplicate_async_copies_back(m, q, h, a, by) ==
    [mem |-> [m EXCEPT ![a] = [live |-> TRUE,
                               data |-> Zeros(Len(m[h.d_blocks.d_vec].data))]],
     stream |-> Append(q, copy_from_gpu_async(h.d_blocks.d_vec, a, by)),
     handle |-> [bound |-> TRUE,
                 d_blocks |-> [d_vec |-> a,
                               lwe_ciphertext_count |-> h.d_blocks.lwe_ciphertext_count,
                               lwe_size |-> Len(m[h.d_blocks.d_vec].data)
                                               \div h.d_blocks.lwe_ciphertext_count,
                               ciphertext_modulus |-> h.d_blocks.ciphertext_modulus],
                 info |-> h.info]]

\* lines 162-176, duplicate_async: a new buffer of the length of the
\* source at address a, the device to device copy submitted to the stream,
\* the metadata cloned
duplicate_async(m, q, h, a, by) ==
    [mem |-> [m EXCEPT ![a] = [live |-> TRUE,
                               data |-> Zeros(Len(m[h.d_blocks.d_vec].data))]],
     stream |-> Append(q, copy_from_gpu_async(a, h.d_blocks.d_vec, by)),
     handle |-> [bound |-> TRUE,
                 d_blocks |-> [d_vec |-> a,
                               lwe_ciphertext_count |-> h.d_blocks.lwe_ciphertext_count,
                               lwe_size |-> Len(m[h.d_blocks.d_vec].data)
                                               \div h.d_blocks.lwe_ciphertext_count,
                               ciphertext_modulus |-> h.d_blocks.ciphertext_modulus],
                 info |-> h.info]]

\* duplicate_async waiting for the stream before it returns
DuplicateAsync_synchronizes(src, dst) ==
    /\ gops < MaxGpuOps
    /\ src # dst
    /\ handles[src].bound /\ ~handles[dst].bound
    /\ CanAlloc(mem)
    /\ LET d == duplicate_async(mem, stream, handles[src], Alloc(mem), "duplicate_async")
       IN  /\ mem' \in DrainOutcomes(d.mem, d.stream)
           /\ handles' = [handles EXCEPT ![dst] = d.handle]
    /\ stream' = <<>>
    /\ h_ret' = NoRet
    /\ g_call' = GCall("duplicate_async", src, dst, NoCt)
    /\ origin' = [origin EXCEPT ![dst] = [by |-> "duplicate_async", ct |-> NoCt, of |-> src]]
    /\ gops' = gops + 1
    /\ UNCHANGED <<addVars, redVars>>

\* let dst = unsafe { src.duplicate_async(&stream) }: nothing is waited for
DuplicateAsync(src, dst) ==
    /\ gops < MaxGpuOps
    /\ src # dst
    /\ handles[src].bound /\ ~handles[dst].bound
    /\ CanAlloc(mem)
    /\ LET d == duplicate_async(mem, stream, handles[src], Alloc(mem), "duplicate_async")
       IN  /\ mem' = d.mem
           /\ stream' = d.stream
           /\ handles' = [handles EXCEPT ![dst] = d.handle]
    /\ h_ret' = NoRet
    /\ g_call' = GCall("duplicate_async", src, dst, NoCt)
    /\ origin' = [origin EXCEPT ![dst] = [by |-> "duplicate_async", ct |-> NoCt, of |-> src]]
    /\ gops' = gops + 1
    /\ UNCHANGED <<addVars, redVars>>

\* duplicate returning a handle on the buffer of the source
Duplicate_shares_buffer(src, dst) ==
    /\ gops < MaxGpuOps
    /\ src # dst
    /\ handles[src].bound /\ ~handles[dst].bound
    /\ \E m0 \in DrainOutcomes(mem, stream) :
          /\ mem' = m0
          /\ g_call' = GCall("duplicate", src, dst, View(m0, handles[src]))
          /\ origin' = [origin EXCEPT ![dst] =
                           [by |-> "duplicate",
                            ct |-> to_radix_ciphertext(m0, handles[src]), of |-> src]]
    /\ handles' = [handles EXCEPT ![dst] = handles[src]]
    /\ stream' = <<>>
    /\ h_ret' = NoRet
    /\ gops' = gops + 1
    /\ UNCHANGED <<addVars, redVars>>

\* duplicate without stream.synchronize()
Duplicate_without_synchronize(src, dst) ==
    /\ gops < MaxGpuOps
    /\ src # dst
    /\ handles[src].bound /\ ~handles[dst].bound
    /\ CanAlloc(mem)
    /\ LET d == duplicate_async(mem, stream, handles[src], Alloc(mem), "duplicate")
       IN  /\ mem' = d.mem
           /\ stream' = d.stream
           /\ handles' = [handles EXCEPT ![dst] = d.handle]
    /\ h_ret' = NoRet
    /\ g_call' = GCall("duplicate", src, dst, View(mem, handles[src]))
    /\ origin' = [origin EXCEPT ![dst] =
                     [by |-> "duplicate",
                      ct |-> to_radix_ciphertext(mem, handles[src]), of |-> src]]
    /\ gops' = gops + 1
    /\ UNCHANGED <<addVars, redVars>>

\* let dst = src.duplicate(&stream), lines 204-208: duplicate_async, then
\* stream.synchronize().  m0 is the memory once the operations submitted
\* before the call are executed.
Duplicate(src, dst) ==
    /\ gops < MaxGpuOps
    /\ src # dst
    /\ handles[src].bound /\ ~handles[dst].bound
    /\ CanAlloc(mem)
    /\ \E m0 \in DrainOutcomes(mem, stream) :
          LET d == duplicate_async(m0, <<>>, handles[src], Alloc(mem), "duplicate")
          IN  /\ mem' \in DrainOutcomes(d.mem, d.stream)
              /\ handles' = [handles EXCEPT ![dst] = d.handle]
              /\ g_call' = GCall("duplicate", src, dst, View(m0, handles[src]))
              /\ origin' = [origin EXCEPT ![dst] =
                               [by |-> "duplicate",
                                ct |-> to_radix_ciphertext(m0, handles[src]),
                                of |-> src]]
    /\ stream' = <<>>
    /\ h_ret' = NoRet
    /\ gops' = gops + 1
    /\ UNCHANGED <<addVars, redVars>>

\* stream.synchronize() called by the caller
Synchronize ==
    /\ gops < MaxGpuOps
    /\ stream # <<>>
    /\ mem' \in DrainOutcomes(mem, stream)
    /\ stream' = <<>>
    /\ h_ret' = NoRet
    /\ g_call' = GCall("synchronize", "d1", "d1", NoCt)
    /\ gops' = gops + 1
    /\ UNCHANGED <<handles, origin, addVars, redVars>>

\* the device executes the oldest submitted operation
StreamExec ==
    /\ stream # <<>>
    /\ mem' \in ExecOutcomes(mem, Head(stream))
    /\ stream' = Tail(stream)
    /\ UNCHANGED <<handles, h_ret, g_call, origin, gops, addVars, redVars>>

\* drop(h): the device buffer is released at once
Drop(h) ==
    /\ gops < MaxGpuOps
    /\ handles[h].bound
    /\ mem' = [mem EXCEPT ![handles[h].d_blocks.d_vec].live = FALSE]
    /\ handles' = [handles EXCEPT ![h] = NoHandle]
    /\ h_ret' = NoRet
    /\ g_call' = GCall("drop", h, h, NoCt)
    /\ origin' = [origin EXCEPT ![h] = NoOrigin]
    /\ gops' = gops + 1
    /\ UNCHANGED <<stream, addVars, redVars>>

\* h1.is_equal(&h2, &stream), lines 210-230
IsEqual(h1, h2) ==
    /\ gops < MaxGpuOps
    /\ handles[h1].bound /\ handles[h2].bound
    /\ mem' \in DrainOutcomes(mem, stream)
    /\ stream' = <<>>
    /\ h_ret' = [kind |-> "bool", ct |-> NoCt, eq |-> is_equal(mem', handles[h1], handles[h2])]
    /\ g_call' = GCall("is_equal", h1, h2, NoCt)
    /\ gops' = gops + 1
    /\ UNCHANGED <<handles, origin, addVars, redVars>>

GpuNext ==
    \/ \E h \in HandleNames, radix \in HostCts : FromRadix(h, radix)
    \/ \E h \in HandleNames, radix \in HostCts : CopyFromRadix(h, radix)
    \/ \E h \in HandleNames : ToRadix(h)
    \/ \E src \in HandleNames, dst \in HandleNames : DuplicateAsync(src, dst)
    \/ \E src \in HandleNames, dst \in HandleNames : Duplicate(src, dst)
    \/ Synchronize
    \/ StreamExec
    \/ \E h \in HandleNames : Drop(h)
    \/ \E h1 \in HandleNames, h2 \in HandleNames : IsEqual(h1, h2)

SpecGpu == GpuInit /\ [][GpuNext]_vars

\* the host ciphertext a bound handle transfers back now
HostOf(h) == to_radix_ciphertext(mem, handles[h])

\* C4: a handle made by from_radix_ciphertext(c) and not written since
\* gives c back by to_radix_ciphertext: same block count, block i with the
\* payload and the metadata of block i of c.
C4_RoundTrip ==
    (g_call.op = "to_radix" /\ origin[g_call.h].by = "from_radix") =>
        /\ h_ret.kind = "ct"
        /\ Len(h_ret.ct) = Len(origin[g_call.h].ct)
        /\ \A i \in 1..Len(h_ret.ct) : h_ret.ct[i] = origin[g_call.h].ct[i]

\* a ciphertext of several blocks has made the round trip
C4_Witness ==
    /\ g_call.op = "to_radix"
    /\ origin[g_call.h].by = "from_radix"
    /\ Len(origin[g_call.h].ct) >= 2
    /\ h_ret.ct = origin[g_call.h].ct

\* C5: a handle returned by duplicate keeps the buffer content and the
\* metadata its source had at duplication time, whatever is done to the
\* source afterwards (copy_from_radix_ciphertext, drop); and a handle
\* written from the host keeps what was written, whatever is done to its
\* duplicates.
C5_DuplicateIsolated ==
    \A d \in HandleNames :
        (handles[d].bound /\ origin[d].by \in {"duplicate", "from_radix", "copy_from"}) =>
            /\ mem[handles[d].d_blocks.d_vec].live
            /\ HostOf(d) = origin[d].ct

\* the source of a duplicate has been overwritten with another ciphertext
\* and the duplicate still holds the ciphertext of duplication time
C5_Witness ==
    \E d \in HandleNames :
        /\ handles[d].bound
        /\ origin[d].by = "duplicate"
        /\ g_call.op = "copy_from"
        /\ g_call.h = origin[d].of
        /\ g_call.h # d
        /\ HostOf(d) = origin[d].ct
        /\ HostOf(g_call.h) # origin[d].ct

\* C6: when duplicate(d) returns, the new handle has a buffer of the same
\* length and content as d and the metadata of d, so is_equal holds and
\* both handles transfer back the same ciphertext; d is as it was.
C6_DuplicateEqual ==
    g_call.op = "duplicate" =>
        LET s == handles[g_call.h]
            d == handles[g_call.other]
        IN  /\ d.bound
            /\ d.d_blocks.d_vec # s.d_blocks.d_vec
            /\ Len(mem[d.d_blocks.d_vec].data) = Len(mem[s.d_blocks.d_vec].data)
            /\ mem[d.d_blocks.d_vec].data = mem[s.d_blocks.d_vec].data
            /\ d.info = s.info
            /\ is_equal(mem, s, d)
            /\ HostOf(g_call.other) = HostOf(g_call.h)
            /\ View(mem, s) = g_call.pre

\* a ciphertext of several blocks has been duplicated
C6_Witness ==
    /\ g_call.op = "duplicate"
    /\ Len(handles[g_call.h].info) >= 2
    /\ HostOf(g_call.h) \in HostCts
    /\ HostOf(g_call.other) = HostOf(g_call.h)

\* C10: when duplicate returns, the copy it submitted has been executed
\* and the stream is empty: no copy submitted by duplicate is ever in
\* flight while the caller runs, so dropping or overwriting the source
\* right after the call leaves the duplicate intact.
C10_DuplicateSynchronized ==
    /\ g_call.op = "duplicate" => stream = <<>>
    /\ \A i \in 1..Len(stream) : stream[i].by # "duplicate"
    /\ (g_call.prev = "duplicate" /\ g_call.op \in {"drop", "copy_from"}) =>
          \A d \in HandleNames :
              (handles[d].bound /\ origin[d].by = "duplicate") =>
                  HostOf(d) = origin[d].ct

\* the source has been dropped right after duplicate returned, and the
\* duplicate holds the ciphertext
C10_Witness ==
    \E d \in HandleNames :
        /\ g_call.op = "drop"
        /\ g_call.prev = "duplicate"
        /\ handles[d].bound
        /\ origin[d].by = "duplicate"
        /\ origin[d].of = g_call.h
        /\ ~handles[g_call.h].bound
        /\ stream = <<>>
        /\ HostOf(d) = origin[d].ct

\* C11: copy_from_radix_ciphertext(d, c) writes into the buffer d already
\* has (same address, same length, nothing allocated or released) and
\* replaces the metadata of d by that of c; when it returns the stream is
\* empty, and for c with the block count of d, to_radix_ciphertext(d) = c.
C11_CopyInPlace ==
    [][(gops' = gops + 1 /\ g_call'.op = "copy_from") =>
          LET h == g_call'.h
              a == handles[h].d_blocks.d_vec
          IN  /\ handles'[h].d_blocks = handles[h].d_blocks
              /\ Len(mem'[a].data) = Len(mem[a].data)
              /\ \A b \in Addrs : mem'[b].live = mem[b].live
              /\ handles'[h].info = InfoOf(origin'[h].ct)
              /\ stream' = <<>>
              /\ (Len(origin'[h].ct) = handles[h].d_blocks.lwe_ciphertext_count) =>
                    to_radix_ciphertext(mem', handles'[h]) = origin'[h].ct]_vars

\* a handle of several blocks has been overwritten with a ciphertext of
\* the same block count, other than the one its duplicate still holds
C11_Witness ==
    \E d \in HandleNames :
        /\ g_call.op = "copy_from"
        /\ g_call.h # d
        /\ handles[d].bound
        /\ origin[d].by = "duplicate"
        /\ origin[d].of = g_call.h
        /\ Len(origin[g_call.h].ct) = handles[g_call.h].d_blocks.lwe_ciphertext_count
        /\ Len(origin[g_call.h].ct) >= 2
        /\ HostOf(g_call.h) = origin[g_call.h].ct
        /\ origin[g_call.h].ct # origin[d].ct


\* C12: started from the same operands (a, b), smart_add_assign_parallelized
\* leaves in a the ciphertext smart_add_parallelized returns, and leaves b
\* as smart_add_parallelized leaves it: propagated when is_add_possible
\* was false on entry, untouched when it was true.
C12_AssignSameAsAdd ==
    call.op = "smart_add_assign" =>
        LET r == smart_add_parallelized(call.pre_left, call.pre_right)
        IN  /\ cts[call.left] = r.result
            /\ cts[call.right] = r.ct_right
            /\ PossibleOnEntry => cts[call.right] = call.pre_right
            /\ ~PossibleOnEntry =>
                  cts[call.right] = full_propagate_parallelized(call.pre_right)

\* a smart_add_assign that had to propagate operands holding carries
C12_Witness ==
    /\ call.op = "smart_add_assign"
    /\ ~PossibleOnEntry
    /\ ~Normalized(call.pre_left) /\ ~Normalized(call.pre_right)
    /\ cts[call.left] = smart_add_parallelized(call.pre_left, call.pre_right).result
    /\ cts[call.right] # call.pre_right


\* C13: is_equal(a, b) returns true exactly when the device buffers of a
\* and b have the same length and the same word at every index, read once
\* everything submitted to the stream has been executed; the answer does
\* not involve the metadata of a or b, the call writes to no buffer (the
\* memory changes only by the operations that were already submitted) and
\* leaves both handles as they were.
C13_IsEqualRawBuffers ==
    [][(gops' = gops + 1 /\ g_call'.op = "is_equal") =>
          LET a == mem'[handles[g_call'.h].d_blocks.d_vec].data
              b == mem'[handles[g_call'.other].d_blocks.d_vec].data
          IN  /\ h_ret'.kind = "bool"
              /\ h_ret'.eq = (/\ Len(a) = Len(b)
                              /\ \A i \in 1..Len(a) : a[i] = b[i])
              /\ stream' = <<>>
              /\ mem' \in DrainOutcomes(mem, stream)
              /\ stream = <<>> => mem' = mem
              /\ handles' = handles]_vars

\* is_equal has answered true for two distinct handles whose metadata
\* differ
C13_Witness ==
    /\ g_call.op = "is_equal"
    /\ g_call.h # g_call.other
    /\ h_ret.kind = "bool" /\ h_ret.eq
    /\ handles[g_call.h].info # handles[g_call.other].info
    /\ stream = <<>>


\* C14: for the operands a caller holds, in either order, and for the
\* operands of the last smart addition as they were on entry: when
\* is_add_possible(a, b) is true, every aligned block pair has
\* degree_left + degree_right <= message_modulus * carry_modulus - 1 and
\* both noise levels under max_noise_level, and unchecked_add(a, b)
\* decrypts, within the noise budget, to (decrypt(a) + decrypt(b)) modulo
\* the radix modulus; when some block pair exceeds the carry capacity or
\* the noise maximum, is_add_possible(a, b) is false.
C14_PredicateSound ==
    LET held == {<<cts[x], cts[y]>> : x \in Names, y \in Names}
        entered == IF call.op \in {"smart_add", "smart_add_assign"}
                   THEN {<<call.pre_left, call.pre_right>>} ELSE {}
    IN  \A p \in held \cup entered :
          LET a == p[1]
              b == p[2]
          IN  /\ is_add_possible(a, b) =>
                    /\ \A i \in 1..Len(a) :
                          /\ a[i].degree + b[i].degree <= max_degree
                          /\ a[i].noise_level < max_noise_level
                          /\ b[i].noise_level < max_noise_level
                    /\ NoiseOk(unchecked_add(a, b))
                    /\ DegreeOk(unchecked_add(a, b))
                    /\ Decrypt(unchecked_add(a, b)) =
                          (Decrypt(a) + Decrypt(b)) % RadixModulus
              /\ (\E i \in 1..Len(a) :
                     \/ a[i].degree + b[i].degree > max_degree
                     \/ a[i].noise_level + b[i].noise_level > max_noise_level)
                    => ~is_add_possible(a, b)

\* a smart_add found the predicate true on operands holding carries whose
\* sum wraps around the radix modulus, and returned their unchecked sum;
\* the caller now holds operands for which the predicate is false
C14_Witness ==
    /\ call.op = "smart_add"
    /\ PossibleOnEntry
    /\ ~Normalized(call.pre_left)
    /\ Decrypt(call.pre_left) + Decrypt(call.pre_right) >= RadixModulus
    /\ ct_res = unchecked_add(call.pre_left, call.pre_right)
    /\ \E x \in Names, y \in Names : ~is_add_possible(cts[x], cts[y])


\* C15: the operands smart_add_parallelized and
\* smart_add_assign_parallelized hand to the unchecked addition satisfy
\* is_add_possible: they are the operands on entry when the predicate was
\* true, and the fully propagated operands otherwise; and any two fully
\* propagated operands satisfy the predicate.
C15_UncheckedAddGuarded ==
    /\ call.op = "smart_add" =>
          /\ is_add_possible(cts[call.left], cts[call.right])
          /\ ct_res = unchecked_add(cts[call.left], cts[call.right])
          /\ cts[call.left] = IF PossibleOnEntry THEN call.pre_left
                              ELSE full_propagate_parallelized(call.pre_left)
    /\ call.op = "smart_add_assign" =>
          LET l == IF PossibleOnEntry THEN call.pre_left
                   ELSE full_propagate_parallelized(call.pre_left)
          IN  /\ is_add_possible(l, cts[call.right])
              /\ cts[call.left] = unchecked_add(l, cts[call.right])
    /\ \A x \in Names, y \in Names :
          is_add_possible(full_propagate_parallelized(cts[x]),
                          full_propagate_parallelized(cts[y]))

\* a smart_add_assign found the predicate false on operands holding
\* carries and added the propagated operands
C15_Witness ==
    /\ call.op = "smart_add_assign"
    /\ ~PossibleOnEntry
    /\ ~Normalized(call.pre_left) /\ ~Normalized(call.pre_right)
    /\ is_add_possible(full_propagate_parallelized(call.pre_left), cts[call.right])
    /\ cts[call.left] =
          unchecked_add(full_propagate_parallelized(call.pre_left), cts[call.right])


\* C16: in a round that starts with an odd number of slots, the slot at
\* index 0 is in no pair given to op, the ciphertext behind it stays as it
\* was when the round started, and the next round's slot list has it at
\* index 0 followed by the results of the round; in a round that starts
\* with an even number of slots every slot is in a pair once every task
\* has applied op, and the next slot list is made of the results only.
C16_PrefixCarried ==
    /\ [](rpc = "round" =>
            /\ Len(ct_seq) % 2 = 1 =>
                  /\ \A pr \in trace.pairs : pr[1] # 1 /\ pr[2] # 1
                  /\ as_mut(ct_seq[1]) = trace.start[1]
            /\ (Len(ct_seq) % 2 = 0 /\ \A k \in 1..Len(chunks) : chunks[k].pc # "op") =>
                  \A i \in 1..Len(ct_seq) :
                      \E pr \in trace.pairs : i = pr[1] \/ i = pr[2])
    /\ [][(rpc = "round" /\ rpc' = "loop") =>
            IF Len(ct_seq) % 2 = 1
            THEN /\ ct_seq'[1] = ct_seq[1]
                 /\ as_mut(ct_seq[1]) = trace.start[1]
                 /\ items' = items
                 /\ Len(ct_seq') = 1 + Len(results)
                 /\ \A j \in 1..Len(results) : ct_seq'[1 + j] = Owned(results[j])
            ELSE ct_seq' = [j \in 1..Len(results) |-> Owned(results[j])]]_vars

\* after the first round on five ciphertexts: the first one is still
\* borrowed at index 0 and as the caller passed it, the second one has been
\* propagated by op, and two owned results follow
C16_Witness ==
    /\ rpc = "loop"
    /\ rounds = 1
    /\ Len(orig) = 5
    /\ Len(ct_seq) = 3
    /\ ct_seq[1] = Borrowed(1)
    /\ items[1] = orig[1] /\ ~Normalized(orig[1])
    /\ items[2] # orig[2]
    /\ ct_seq[2].kind = "Owned" /\ ct_seq[3].kind = "Owned"
    /\ trace.pairs = {<<2, 3>>, <<4, 5>>}

\* C17: in a round the pairs given to op are pairs of consecutive slots
\* (p + 2i, p + 2i + 1) after the carried prefix p, no slot is in two
\* pairs, every slot after the prefix is in a pair once every task has
\* applied op, and distinct slots give access to distinct ciphertexts, so
\* no two applications of op of a round are given the same ciphertext.
C17_DisjointPairs ==
    rpc = "round" =>
        LET L == Len(ct_seq)
            p == L % 2
        IN  /\ \A pr \in trace.pairs :
                  \E i \in 0..(L \div 2 - 1) : pr = <<p + 2 * i + 1, p + 2 * i + 2>>
            /\ \A pr1 \in trace.pairs, pr2 \in trace.pairs :
                  pr1 # pr2 => {pr1[1], pr1[2]} \cap {pr2[1], pr2[2]} = {}
            /\ Cardinality(trace.pairs) =
                  Cardinality({k \in 1..Len(chunks) : chunks[k].pc # "op"})
            /\ \A i \in 1..L : trace.slot_uses[i] <= 1
            /\ (\A k \in 1..Len(chunks) : chunks[k].pc # "op") =>
                  \A i \in (p + 1)..L :
                      Cardinality({pr \in trace.pairs : i = pr[1] \/ i = pr[2]}) = 1
            /\ \A i \in 1..L, j \in 1..L :
                  (i # j /\ ct_seq[i].kind = "Borrowed" /\ ct_seq[j].kind = "Borrowed")
                      => ct_seq[i].ref # ct_seq[j].ref

\* both tasks of the first round on five ciphertexts have applied op and
\* neither has appended its result yet
C17_Witness ==
    /\ rpc = "round"
    /\ rounds = 1
    /\ Len(ct_seq) = 5
    /\ trace.pairs = {<<2, 3>>, <<4, 5>>}
    /\ chunks[1].pc = "lock" /\ chunks[2].pc = "lock"
    /\ results = <<>>


\* C18: in a round at most one task holds the guard of the results vector;
\* at any time the vector holds exactly the results of the tasks that have
\* appended, each once, in some order; the result of a task is op applied
\* to its two slots as they were when the round started, whatever the
\* interleaving; so a round that starts with L slots ends with
\* (L mod 2) + floor(L / 2) slots.
C18_ResultsComplete ==
    /\ [](rpc = "round" =>
            LET done == {k \in 1..Len(chunks) : chunks[k].pc = "done"}
                p == Len(ct_seq) % 2
            IN  /\ Len(chunks) = Len(ct_seq) \div 2
                /\ Cardinality({k \in 1..Len(chunks) : chunks[k].pc = "push"}) <= 1
                /\ \A k \in 1..Len(chunks) : chunks[k].pc = "push" => lock = k
                /\ Len(results) = Cardinality(done)
                /\ \A k \in done :
                      /\ chunks[k].result =
                            smart_add_parallelized(trace.start[p + 2 * k - 1],
                                                   trace.start[p + 2 * k]).result
                      /\ Cardinality({j \in 1..Len(results) : results[j] = chunks[k].result})
                            = Cardinality({k2 \in done : chunks[k2].result = chunks[k].result})
                /\ \A j \in 1..Len(results) : \E k \in done : results[j] = chunks[k].result)
    /\ [][(rpc = "round" /\ rpc' = "loop") =>
            /\ Len(results) = Len(ct_seq) \div 2
            /\ Len(ct_seq') = (Len(ct_seq) % 2) + (Len(ct_seq) \div 2)]_vars

\* a round of two tasks has ended with the result of the second task
\* appended before that of the first, the two results being different
C18_Witness ==
    /\ rpc = "round"
    /\ Len(chunks) = 2
    /\ chunks[1].pc = "done" /\ chunks[2].pc = "done"
    /\ chunks[1].result # chunks[2].result
    /\ results = <<chunks[2].result, chunks[1].result>>


RECURSIVE SlotSum(_, _)
\* the sum of the decrypted values of the slots from index i on
SlotSum(seq, i) ==
    IF i > Len(seq) THEN 0
    ELSE Decrypt(as_mut(seq[i])) + SlotSum(seq, i + 1)

\* C19: before the first round, between two rounds and after the last one,
\* the sum modulo the radix modulus of the decrypted values of all current
\* slots is the plaintext fold of the decrypted original inputs.
C19_SlotsKeepFold ==
    (rpc \in {"entry", "loop", "pop"} /\ Len(orig) >= 1) =>
        SlotSum(ct_seq, 1) % RadixModulus = PlainFold(orig, Len(orig))

\* between the second and the third round on five ciphertexts that were not
\* clean, with a sum that wraps around the radix modulus: the carried
\* borrowed slot and one owned intermediate
C19_Witness ==
    /\ rpc = "loop"
    /\ rounds = 2
    /\ Len(orig) = 5
    /\ \A i \in 1..5 : ~Normalized(orig[i])
    /\ Len(ct_seq) = 2
    /\ ct_seq[1].kind = "Borrowed" /\ ct_seq[2].kind = "Owned"
    /\ SlotSum(ct_seq, 1) >= RadixModulus
    /\ SlotSum(ct_seq, 1) % RadixModulus = PlainFold(orig, 5)

\* C20: in a reduction of n >= 2 ciphertexts no item and no slot is given
\* to op twice; every slot a round removes from the list has been given to
\* op exactly once; the last remaining slot is an owned intermediate that
\* op was never given, and it is returned without a clone; when the
\* reduction returns every item of the caller has been given to op exactly
\* once; once the first round is over only the slot at index 0 can be
\* Borrowed.
C20_EachElementOnce ==
    /\ [](Len(orig) >= 2 =>
            /\ \A i \in 1..Len(trace.item_uses) : trace.item_uses[i] <= 1
            /\ \A i \in 1..Len(trace.slot_uses) : trace.slot_uses[i] <= 1
            /\ rpc = "pop" =>
                  /\ Len(ct_seq) = 1
                  /\ ct_seq[1].kind = "Owned"
                  /\ trace.slot_uses[1] = 0
            /\ rpc = "done" =>
                  /\ \A i \in 1..Len(orig) : trace.item_uses[i] = 1
                  /\ clones = 0
            /\ (rounds >= 2 \/ (rounds = 1 /\ rpc # "round")) =>
                  \A i \in 2..Len(ct_seq) : ct_seq[i].kind = "Owned")
    /\ [][(rpc = "round" /\ rpc' = "loop") =>
            /\ \A i \in ((Len(ct_seq) % 2) + 1)..Len(ct_seq) : trace.slot_uses[i] = 1
            /\ \A i \in 1..(Len(ct_seq) % 2) : trace.slot_uses[i] = 0
            /\ \A i \in ((Len(ct_seq) % 2) + 1)..Len(ct_seq') :
                  ct_seq'[i].kind = "Owned" /\ trace'.slot_uses[i] = 0]_vars

\* a reduction of five ciphertexts has returned: op was given every item
\* once, the first one in the last round only, and nothing was cloned
C20_Witness ==
    /\ rpc = "done"
    /\ Len(orig) = 5
    /\ rounds = 3
    /\ \A i \in 1..5 : trace.item_uses[i] = 1
    /\ trace.pairs = {<<1, 2>>}
    /\ clones = 0
    /\ ret.state = "Some"


\* C21 as stated: the reduction of a single ciphertext returns it without
\* any ciphertext clone, and a reduction of n >= 2 ciphertexts performs no
\* clone at all.
C21_NoCloneAtAll ==
    Len(orig) >= 1 => clones = 0

\* C21 amended: the reduction of a single ciphertext c performs exactly one
\* clone, the one that makes the returned value out of the Borrowed slot,
\* and returns a ciphertext equal to c, which the caller still holds
\* unchanged; a reduction of n >= 2 ciphertexts, or of none, performs no
\* clone at all.
C21_OneCloneForSingle ==
    /\ Len(orig) = 1 =>
          /\ clones = (IF rpc = "done" THEN 1 ELSE 0)
          /\ rpc = "done" => (ret = Some(orig[1]) /\ items = orig /\ ct_seq = <<>>)
    /\ Len(orig) # 1 => clones = 0

\* the reduction of a single ciphertext has returned after one clone
C21_Witness ==
    /\ rpc = "done"
    /\ Len(orig) = 1
    /\ clones = 1
    /\ op_calls = 0
    /\ ret = Some(items[1])


\* C23: when is_add_possible(a, b) is true on entry, smart_add_parallelized
\* leaves a and b as they were, block by block (payload, degree and noise
\* level), and returns their unchecked sum, and
\* smart_add_assign_parallelized leaves b as it was and a as the unchecked
\* sum of the operands on entry; an operand that a call has changed by
\* propagation was changed because the predicate was false, and then both
\* operands were fully propagated.
C23_NoPropagationWhenPossible ==
    LET fl == full_propagate_parallelized(call.pre_left)
        fr == full_propagate_parallelized(call.pre_right)
    IN  /\ (call.op = "smart_add" /\ PossibleOnEntry) =>
              /\ \A i \in 1..NumBlocks :
                    /\ cts[call.left][i].val = call.pre_left[i].val
                    /\ cts[call.left][i].degree = call.pre_left[i].degree
                    /\ cts[call.left][i].noise_level = call.pre_left[i].noise_level
                    /\ cts[call.right][i] = call.pre_right[i]
              /\ ct_res = unchecked_add(call.pre_left, call.pre_right)
        /\ (call.op = "smart_add_assign" /\ PossibleOnEntry) =>
              /\ cts[call.right] = call.pre_right
              /\ cts[call.left] = unchecked_add(call.pre_left, call.pre_right)
        /\ (call.op = "smart_add" /\ ~PossibleOnEntry) =>
              /\ cts[call.left] = fl /\ cts[call.right] = fr
              /\ ct_res = unchecked_add(fl, fr)
        /\ (call.op = "smart_add_assign" /\ ~PossibleOnEntry) =>
              /\ cts[call.right] = fr
              /\ cts[call.left] = unchecked_add(fl, fr)
        /\ (call.op = "smart_add" /\ (cts[call.left] # call.pre_left
                                       \/ cts[call.right] # call.pre_right)) =>
              ~PossibleOnEntry
        /\ (call.op = "smart_add_assign" /\ cts[call.right] # call.pre_right) =>
              ~PossibleOnEntry

\* a smart_add found the predicate true on two operands that both hold
\* carries, and left them with their carries
C23_Witness ==
    /\ call.op = "smart_add"
    /\ PossibleOnEntry
    /\ ~Normalized(call.pre_left) /\ ~Normalized(call.pre_right)
    /\ cts[call.left] = call.pre_left /\ cts[call.right] = call.pre_right
    /\ ~Normalized(cts[call.left]) /\ ~Normalized(cts[call.right])


\* C22: every device ciphertext a handle holds has a buffer of
\* lwe_size * lwe_ciphertext_count words and a metadata array with exactly
\* one entry per block of the buffer, after any sequence of bridge calls,
\* copy_from_radix_ciphertext with a host ciphertext of another block count
\* included.
C22_HandleWellFormed ==
    \A h \in HandleNames :
        handles[h].bound =>
            LET d == handles[h].d_blocks
            IN  /\ Len(mem[d.d_vec].data) = d.lwe_size * d.lwe_ciphertext_count
                /\ Len(handles[h].info) = d.lwe_ciphertext_count
                /\ Len(handles[h].info) * d.lwe_size = Len(mem[d.d_vec].data)


\* a copy submitted to the stream and not executed yet reads a buffer that
\* has been deallocated
PendingReadOfFreed ==
    \E i \in 1..Len(stream) :
        stream[i].op = "copy_gpu" /\ ~mem[stream[i].src].live

\* C24: when duplicate_async returns, the device to device copy is in the
\* stream, not executed, and the new buffer does not hold the content of
\* the source yet; a synchronization of the stream by the caller right
\* after it makes the two buffers equal; a state in which a pending copy
\* reads a deallocated buffer is entered only by dropping a handle whose
\* buffer a pending copy reads, and never from a state in which the stream
\* has nothing pending.
C24_AsyncCopyPending ==
    /\ [][(gops' = gops + 1 /\ g_call'.op = "duplicate_async") =>
            LET s == handles[g_call'.h].d_blocks.d_vec
                d == handles'[g_call'.other].d_blocks.d_vec
            IN  /\ stream' = Append(stream, copy_from_gpu_async(d, s, "duplicate_async"))
                /\ mem'[d] = [live |-> TRUE, data |-> Zeros(Len(mem[s].data))]
                /\ \A a \in Addrs \ {d} : mem'[a] = mem[a]
                /\ ~mem[d].live]_vars
    /\ [][(gops' = gops + 1 /\ g_call.op = "duplicate_async"
                            /\ g_call'.op = "synchronize") =>
            /\ stream' = <<>>
            /\ is_equal(mem', handles[g_call.h], handles[g_call.other])]_vars
    /\ [][(~PendingReadOfFreed /\ PendingReadOfFreed') =>
            /\ gops' = gops + 1 /\ g_call'.op = "drop"
            /\ \E i \in 1..Len(stream) :
                  /\ stream[i].op = "copy_gpu"
                  /\ stream[i].src = handles[g_call'.h].d_blocks.d_vec]_vars
    /\ [][stream = <<>> => ~PendingReadOfFreed']_vars

\* the source of a duplicate_async has been dropped while the copy was
\* pending: the copy reads a deallocated buffer, and the duplicate does not
\* hold the content of the source
C24_Witness ==
    /\ g_call.op = "drop"
    /\ PendingReadOfFreed
    /\ \E d \in HandleNames :
          /\ handles[d].bound
          /\ origin[d].by = "duplicate_async"
          /\ origin[d].of = g_call.h
          /\ \E i \in 1..Len(stream) :
                /\ stream[i].dst = handles[d].d_blocks.d_vec
                /\ ~mem[stream[i].src].live
                /\ mem[stream[i].dst].data # mem[stream[i].src].data

====
